---- MODULE Spec2Model ----
(***************************************************************************)
(* Model of the bulletin-board client's data layer:                        *)
(*   - useAsyncState (hooks/useAsyncState.ts): the (data, loading, error)  *)
(*     tracker with execute / reset, and the hooks that wrap it            *)
(*     (useCreatePost, usePosts);                                          *)
(*   - formatErrorMessage / isApiError (utils/errorUtils.ts);              *)
(*   - localCache (shared/lib/cache.ts) and getThreadTitle                 *)
(*     (features/threads/api/threads.ts) over localStorage and timers.     *)
(*                                                                         *)
(* React state setters called in one synchronous run of a handler or of a  *)
(* promise continuation are applied together (React 19 batches them), so   *)
(* the synchronous prefix of execute and its continuation after the await  *)
(* are one action each.                                                    *)
(***************************************************************************)
EXTENDS Integers, Sequences, FiniteSets, TLC

VARIABLES
    initialData,  \* useAsyncState(initialData)
    data,         \* useState<T | null>(initialData)
    loading,      \* useState(false)
    error,        \* useState<string | null>(null)
    calls,        \* the execute calls of this tracker, by issue order
    resets,       \* number of reset() calls made so far
    lastOp,       \* the step taken last, with what it was given
    escaped       \* the value a hook call rejected with towards its caller

trackerVars == <<initialData, data, loading, error, calls, resets, lastOp, escaped>>

VARIABLES
    storage,      \* localStorage: the value under 'thread_title_' + id, per id
    timers,       \* pending setTimeout callbacks that remove a key
    timerSeq,     \* number of timers scheduled since the last page load
    now,          \* wall clock, in ms
    titleCalls,   \* the getThreadTitle calls, by issue order
    requests,     \* number of thread-list requests issued by getThreadTitle
    lastMatch,    \* per id, when a call that matched it in a response completed
    cacheOp       \* the cache-side step taken last

cacheVars == <<storage, timers, timerSeq, now, titleCalls, requests, lastMatch, cacheOp>>

VARIABLES
    apiCall,      \* the call of an API function that awaits its fetch, if any
    apiOut        \* the API call that ended last: its response and how it ended

apiVars == <<apiCall, apiOut>>

VARIABLES
    callReq,         \* per execute call of a screen, the request its operation sent
    uiEvent,         \* the user event or effect a screen handled last
    currentPage,     \* useThreads: useState(PAGINATION.INITIAL_PAGE)
    titleText,       \* CreateThread: const [title, setTitle] = useState("")
    route,           \* the location navigate() moved to last
    isComposerOpen,  \* PostList: useState(false)
    newPost,         \* PostList: useState('')
    postsView        \* PostList: what the usePosts tracker makes it render

screenVars == <<callReq, uiEvent, currentPage, titleText, route, isComposerOpen,
                newPost, postsView>>

vars == <<trackerVars, cacheVars, apiVars, screenVars>>

----------------------------------------------------------------------------
(* Bounds *)

MaxCalls == 2
MaxScreenCalls == 3
MaxResets == 1
MaxTitleCalls == 3   \* getThreadTitle calls in one run
TicksPerTTL == 2     \* the clock advances in steps of EXPIRE_TIME / TicksPerTTL
MaxTicks == 3
MaxSets == 2         \* localCache.set calls with a TTL in one run        \* the clock stops after MaxTicks steps

----------------------------------------------------------------------------
(* Values *)

Null == "null"            \* JavaScript null / undefined of data, error, threadId
NoMsg == "<no message>"   \* the value has no message property

Values == {"v1", "v2"}                  \* what an operation resolves with
InitialDatas == {Null, "init"}          \* null by default, [] in useThreads

DEFAULT_ERROR_MESSAGE == "default: error while processing"
Fallbacks == {DEFAULT_ERROR_MESSAGE, "fallback1"}

MSG_NO_THREAD_ID == "thread id is not specified"
MSG_EMPTY_POST == "enter the post body"
MSG_CREATE_POST_FAILED == "error while creating the post"
MSG_FETCH_POSTS_FAILED == "error while fetching the posts"

\* A caught value: what `catch (err)` can receive.
ErrorOf(m) == [kind |-> "Error", message |-> m]
ObjectOf(m) == [kind |-> "object", message |-> m]
NoThrown == [kind |-> "none", message |-> NoMsg]

Thrown ==
    { ErrorOf("boom"), ErrorOf("HTTP 500"),
      ObjectOf("objmsg"), ObjectOf(NoMsg),
      [kind |-> "string", message |-> NoMsg],
      [kind |-> "number", message |-> NoMsg],
      [kind |-> "null", message |-> NoMsg] }

\* A string as the sequence of its characters; " " stands for any whitespace.
Chars == {" ", "a"}
PostInputs == {<<>>, <<" ">>, <<"a">>, <<" ", "a">>, <<"a", " ">>}
ThreadIdParams == {Null, "t1"}

----------------------------------------------------------------------------
(* utils/errorUtils.ts *)

formatErrorMessage(err, defaultMessage) ==
    IF err.kind = "Error" THEN err.message ELSE defaultMessage

isApiError(err) ==
    \/ err.kind = "Error"
    \/ err.kind = "object" /\ err.message # NoMsg

----------------------------------------------------------------------------
(* String.prototype.trim *)

RECURSIVE TrimLeft(_)
TrimLeft(s) ==
    IF s # <<>> /\ Head(s) = " " THEN TrimLeft(Tail(s)) ELSE s

RECURSIVE TrimRight(_)
TrimRight(s) ==
    IF s # <<>> /\ s[Len(s)] = " " THEN TrimRight(SubSeq(s, 1, Len(s) - 1)) ELSE s

Trim(s) == TrimRight(TrimLeft(s))

----------------------------------------------------------------------------
(* useAsyncState *)

CallIds == 1..MaxScreenCalls

NoCall == [st |-> "none", fallback |-> "-", op |-> "-", alone |-> TRUE]

InFlight == {c \in CallIds : calls[c].st = "pending"}

NextCall == Cardinality({c \in CallIds : calls[c].st # "none"}) + 1

Op(kind, id, val, thrown, fallback, alone) ==
    [kind |-> kind, id |-> id, val |-> val, thrown |-> thrown,
     fallback |-> fallback, alone |-> alone,
     prevData |-> data, prevError |-> error, prevLoading |-> loading]

TrackerInit ==
    /\ initialData \in InitialDatas
    /\ data = initialData
    /\ loading = FALSE
    /\ error = Null
    /\ calls = [c \in CallIds |-> NoCall]
    /\ resets = 0
    /\ lastOp = [kind |-> "init", id |-> 0, val |-> Null, thrown |-> NoThrown,
                 fallback |-> "-", alone |-> TRUE,
                 prevData |-> initialData, prevError |-> Null, prevLoading |-> FALSE]
    /\ escaped = NoThrown

StartWrites(op, fallback, newError, newData) ==
    /\ NextCall \in CallIds
    /\ loading' = TRUE
    /\ error' = newError
    /\ data' = newData
    /\ calls' = [c \in CallIds |->
                   IF c = NextCall
                   THEN [st |-> "pending", fallback |-> fallback, op |-> op,
                         alone |-> (InFlight = {})]
                   ELSE IF calls[c].st = "pending"
                        THEN [calls[c] EXCEPT !.alone = FALSE]
                        ELSE calls[c]]
    /\ lastOp' = Op("start", NextCall, Null, NoThrown, fallback, InFlight = {})
    /\ escaped' = NoThrown
    /\ UNCHANGED <<initialData, resets>>

\* Mutant: the previous error is not cleared when an operation starts.
ExecuteStart_KeepsError(op, fallback) == StartWrites(op, fallback, error, data)

\* Mutant: starting an operation drops the data held so far.
ExecuteStart_ClearsData(op, fallback) == StartWrites(op, fallback, Null, Null)

\* execute, up to the await: setLoading(true); setError(null); asyncFn() is called.
ExecuteStart(op, fallback) ==
    /\ NextCall \in CallIds
    /\ loading' = TRUE
    /\ error' = Null
    /\ data' = data
    /\ calls' = [c \in CallIds |->
                   IF c = NextCall
                   THEN [st |-> "pending", fallback |-> fallback, op |-> op,
                         alone |-> (InFlight = {})]
                   ELSE IF calls[c].st = "pending"
                        THEN [calls[c] EXCEPT !.alone = FALSE]
                        ELSE calls[c]]
    /\ lastOp' = Op("start", NextCall, Null, NoThrown, fallback, InFlight = {})
    /\ escaped' = NoThrown
    /\ UNCHANGED <<initialData, resets>>

ResolveWrites(c, v, newError, newLoading) ==
    /\ calls[c].st = "pending"
    /\ data' = v
    /\ error' = newError
    /\ loading' = newLoading
    /\ calls' = [calls EXCEPT ![c] = [NoCall EXCEPT !.st = "done"]]
    /\ lastOp' = Op("resolve", c, v, NoThrown, calls[c].fallback, calls[c].alone)
    /\ escaped' = NoThrown
    /\ UNCHANGED <<initialData, resets>>

\* Mutant: a success leaves the call pending, to settle again.
SettleResolve_StaysPending(c, v) ==
    /\ calls[c].st = "pending"
    /\ data' = v
    /\ error' = error
    /\ loading' = FALSE
    /\ calls' = calls
    /\ lastOp' = Op("resolve", c, v, NoThrown, calls[c].fallback, calls[c].alone)
    /\ escaped' = NoThrown
    /\ UNCHANGED <<initialData, resets>>

\* Mutant: no finally block, loading is left as it was.
SettleResolve_NoFinally(c, v) == ResolveWrites(c, v, error, loading)

\* Mutant: a success also clears the error.
SettleResolve_ClearsError(c, v) == ResolveWrites(c, v, Null, FALSE)

\* execute, after the await resolved: setData(result); finally setLoading(false).
SettleResolve(c, v) ==
    /\ calls[c].st = "pending"
    /\ data' = v
    /\ error' = error
    /\ loading' = FALSE
    /\ calls' = [calls EXCEPT ![c] = [NoCall EXCEPT !.st = "done"]]
    /\ lastOp' = Op("resolve", c, v, NoThrown, calls[c].fallback, calls[c].alone)
    /\ escaped' = NoThrown
    /\ UNCHANGED <<initialData, resets>>

\* Mutant: a failure is rendered before the finally block ran.
SettleReject_BeforeFinally(c, err) ==
    /\ calls[c].st = "pending"
    /\ error' = formatErrorMessage(err, calls[c].fallback)
    /\ data' = Null
    /\ loading' = loading
    /\ calls' = [calls EXCEPT ![c] = [NoCall EXCEPT !.st = "done"]]
    /\ lastOp' = Op("reject", c, Null, err, calls[c].fallback, calls[c].alone)
    /\ escaped' = NoThrown
    /\ UNCHANGED <<initialData, resets>>

\* Mutant: a failure keeps the data of the previous success.
SettleReject_KeepsData(c, err) ==
    /\ calls[c].st = "pending"
    /\ error' = formatErrorMessage(err, calls[c].fallback)
    /\ data' = data
    /\ loading' = FALSE
    /\ calls' = [calls EXCEPT ![c] = [NoCall EXCEPT !.st = "done"]]
    /\ lastOp' = Op("reject", c, Null, err, calls[c].fallback, calls[c].alone)
    /\ escaped' = NoThrown
    /\ UNCHANGED <<initialData, resets>>

\* execute, after the await rejected: setError(formatErrorMessage(err, default));
\* setData(null); finally setLoading(false).
SettleReject(c, err) ==
    /\ calls[c].st = "pending"
    /\ error' = formatErrorMessage(err, calls[c].fallback)
    /\ data' = Null
    /\ loading' = FALSE
    /\ calls' = [calls EXCEPT ![c] = [NoCall EXCEPT !.st = "done"]]
    /\ lastOp' = Op("reject", c, Null, err, calls[c].fallback, calls[c].alone)
    /\ escaped' = NoThrown
    /\ UNCHANGED <<initialData, resets>>

\* Mutant: reset also gives up the calls in flight.
reset_CancelsCalls ==
    /\ resets < MaxResets
    /\ data' = initialData
    /\ loading' = FALSE
    /\ error' = Null
    /\ resets' = resets + 1
    /\ calls' = [c \in CallIds |->
                   IF calls[c].st = "pending"
                   THEN [NoCall EXCEPT !.st = "done"] ELSE calls[c]]
    /\ lastOp' = Op("reset", 0, Null, NoThrown, "-", TRUE)
    /\ escaped' = NoThrown
    /\ UNCHANGED initialData

\* Mutant: reset clears data instead of restoring initialData.
reset_ToNull ==
    /\ resets < MaxResets
    /\ data' = Null
    /\ loading' = FALSE
    /\ error' = Null
    /\ resets' = resets + 1
    /\ lastOp' = Op("reset", 0, Null, NoThrown, "-", TRUE)
    /\ escaped' = NoThrown
    /\ UNCHANGED <<initialData, calls>>

\* reset: setData(initialData); setLoading(false); setError(null).
reset ==
    /\ resets < MaxResets
    /\ data' = initialData
    /\ loading' = FALSE
    /\ error' = Null
    /\ resets' = resets + 1
    /\ lastOp' = Op("reset", 0, Null, NoThrown, "-", TRUE)
    /\ escaped' = NoThrown
    /\ UNCHANGED <<initialData, calls>>

----------------------------------------------------------------------------
(* The operations and the hooks that call execute *)

\* execute(asyncFn, defaultErrorMessage) with an operation of the caller's.
Execute == \E f \in Fallbacks : ExecuteStart("generic", f)

\* useCreatePost.handleCreatePost(post): both checks run before execute.
handleCreatePost ==
    \E threadId \in ThreadIdParams, post \in PostInputs :
        IF threadId = Null \/ Trim(post) = <<>>
        THEN /\ escaped' = ErrorOf(IF threadId = Null THEN MSG_NO_THREAD_ID
                                                      ELSE MSG_EMPTY_POST)
             /\ lastOp' = Op("precondition", 0, Null, escaped', "-", lastOp.alone)
             /\ UNCHANGED <<initialData, data, loading, error, calls, resets>>
        ELSE ExecuteStart("createPost", MSG_CREATE_POST_FAILED)

\* usePosts.initialize: execute(fetchPostsAndTitle, ...); the check on threadId
\* runs inside the operation execute awaits.
initialize ==
    \E threadId \in ThreadIdParams :
        ExecuteStart(IF threadId = Null THEN "fetchPostsNoId" ELSE "fetchPosts",
                     MSG_FETCH_POSTS_FAILED)

Resolve ==
    \E c \in CallIds, v \in Values :
        /\ calls[c].op # "fetchPostsNoId"
        /\ SettleResolve(c, v)

Reject ==
    \E c \in CallIds, err \in Thrown \cup {ErrorOf(MSG_NO_THREAD_ID)} :
        /\ calls[c].op = "fetchPostsNoId" <=> err = ErrorOf(MSG_NO_THREAD_ID)
        /\ calls[c].op \in {"createPost", "fetchPosts"} => err.kind = "Error"
        /\ SettleReject(c, err)

----------------------------------------------------------------------------
(* config/cache.ts, shared/lib/cache.ts, shared/lib/http.ts *)

EXPIRE_TIME == 3600000
PLACEHOLDER_TITLE == "thread"     \* the fallback title of getThreadTitle

TickMs == EXPIRE_TIME \div TicksPerTTL
MaxTime == MaxTicks * TickMs

ABSENT_ID == "t3"                  \* an id no thread-list response contains
ThreadIds == {"t1", ABSENT_ID}    \* the ids getThreadTitle is called with
Thread(id, title) == [id |-> id, title |-> title]

\* Bodies the thread-list endpoint can answer with for offset 0.
ThreadLists ==
    { <<>>,
      <<Thread("t1", "A")>>,
      <<Thread("t2", "B"), Thread("t1", "A")>>,
      <<Thread("t1", "")>> }

\* What fetch() can come back with.
Responses ==
    {[kind |-> "ok", status |-> 200, body |-> b] : b \in ThreadLists}
    \cup {[kind |-> "http", status |-> st, body |-> <<>>] : st \in {404, 500}}
    \cup {[kind |-> "network", status |-> 0, body |-> <<>>]}

Truthy(str) == str # Null /\ str # ""

NoThread == [id |-> Null, title |-> Null]   \* the undefined of Array.prototype.find

\* Array.prototype.find on the id: the first thread with that id, or NoThread.
RECURSIVE Find(_, _)
Find(threads, id) ==
    IF threads = <<>> THEN NoThread
    ELSE IF Head(threads).id = id THEN Head(threads)
    ELSE Find(Tail(threads), id)

\* localCache.get
CacheGet(id) == storage[id]

\* localCache.set, as the pair (storage, timers) it leaves.
CacheSet(id, value, ttlMs) ==
    [storage |-> [storage EXCEPT ![id] = value],
     timers |-> IF ttlMs > 0
                THEN timers \cup {[key |-> id, due |-> now + ttlMs, n |-> timerSeq + 1]}
                ELSE timers,
     timerSeq |-> IF ttlMs > 0 THEN timerSeq + 1 ELSE timerSeq]

TitleCallIds == 1..MaxTitleCalls
NoTitleCall == [st |-> "none", id |-> "-"]
TitleCallsIssued == Cardinality({c \in TitleCallIds : titleCalls[c].st # "none"})
NextTitleCall == TitleCallsIssued + 1

CacheOpOf(kind, c, id, result) ==
    [kind |-> kind, call |-> c, id |-> id, result |-> result, own |-> Null,
     ttl |-> 0, at |-> now,
     matchedAt |-> IF id \in ThreadIds THEN lastMatch[id] ELSE -1]

CacheInit ==
    /\ storage = [id \in ThreadIds |-> Null]
    /\ timers = {}
    /\ timerSeq = 0
    /\ now = 0
    /\ titleCalls = [c \in TitleCallIds |-> NoTitleCall]
    /\ requests = 0
    /\ lastMatch = [id \in ThreadIds |-> -1]
    /\ cacheOp = [kind |-> "init", call |-> 0, id |-> "-", result |-> Null,
                  own |-> Null, ttl |-> 0, at |-> 0, matchedAt |-> -1]

\* Mutant: a hit renews the entry (writes it again with a fresh TTL).
getThreadTitle_RenewsOnHit(id) ==
    /\ NextTitleCall \in TitleCallIds
    /\ IF Truthy(CacheGet(id))
       THEN /\ titleCalls' = [titleCalls EXCEPT ![NextTitleCall] =
                                [NoTitleCall EXCEPT !.st = "done"]]
            /\ cacheOp' = CacheOpOf("titleHit", NextTitleCall, id, CacheGet(id))
            /\ storage' = CacheSet(id, CacheGet(id), EXPIRE_TIME).storage
            /\ timers' = CacheSet(id, CacheGet(id), EXPIRE_TIME).timers
            /\ timerSeq' = CacheSet(id, CacheGet(id), EXPIRE_TIME).timerSeq
            /\ UNCHANGED <<now, requests, lastMatch>>
       ELSE /\ titleCalls' = [titleCalls EXCEPT ![NextTitleCall] =
                                [st |-> "pending", id |-> id]]
            /\ requests' = requests + 1
            /\ cacheOp' = CacheOpOf("titleMiss", NextTitleCall, id, Null)
            /\ UNCHANGED <<storage, timers, timerSeq, now, lastMatch>>

\* getThreadTitle(threadId), up to the await: the cache lookup, and on a miss
\* the thread-list request for offset 0.
getThreadTitle(id) ==
    /\ NextTitleCall \in TitleCallIds
    /\ IF Truthy(CacheGet(id))
       THEN /\ titleCalls' = [titleCalls EXCEPT ![NextTitleCall] =
                                [NoTitleCall EXCEPT !.st = "done"]]
            /\ cacheOp' = CacheOpOf("titleHit", NextTitleCall, id, CacheGet(id))
            /\ UNCHANGED <<storage, timers, timerSeq, now, requests, lastMatch>>
       ELSE /\ titleCalls' = [titleCalls EXCEPT ![NextTitleCall] =
                                [st |-> "pending", id |-> id]]
            /\ requests' = requests + 1
            /\ cacheOp' = CacheOpOf("titleMiss", NextTitleCall, id, Null)
            /\ UNCHANGED <<storage, timers, timerSeq, now, lastMatch>>

\* Mutant: the title is cached whether or not a thread was found.
getThreadTitleResponse_CachesFallback(c, resp) ==
    /\ titleCalls[c].st = "pending"
    /\ LET id == titleCalls[c].id
           thread == Find(resp.body, id)
           title == IF thread # NoThread /\ Truthy(thread.title)
                    THEN thread.title ELSE PLACEHOLDER_TITLE
           written == CacheSet(id, title, EXPIRE_TIME)
       IN IF resp.kind # "ok"
          THEN /\ titleCalls' = [titleCalls EXCEPT ![c] =
                                   [NoTitleCall EXCEPT !.st = "failed"]]
               /\ cacheOp' = CacheOpOf("titleFailed", c, id, Null)
               /\ UNCHANGED <<storage, timers, timerSeq, now, requests, lastMatch>>
          ELSE /\ titleCalls' = [titleCalls EXCEPT ![c] =
                                   [NoTitleCall EXCEPT !.st = "done"]]
               /\ storage' = written.storage
               /\ timers' = written.timers
               /\ timerSeq' = written.timerSeq
               /\ cacheOp' = CacheOpOf(IF thread # NoThread THEN "titleMatched"
                                                             ELSE "titleUnmatched",
                                       c, id, title)
               /\ UNCHANGED <<now, requests, lastMatch>>

\* getThreadTitle, after the await: fetchWithErrorHandling throws on a
\* non-success status (and fetch itself on a network failure); otherwise the
\* thread is looked up and, when found, its title is cached with the TTL.
getThreadTitleResponse(c, resp) ==
    /\ titleCalls[c].st = "pending"
    /\ LET id == titleCalls[c].id
           thread == Find(resp.body, id)
           title == IF thread # NoThread /\ Truthy(thread.title)
                    THEN thread.title ELSE PLACEHOLDER_TITLE
           written == CacheSet(id, title, EXPIRE_TIME)
       IN IF resp.kind # "ok"
          THEN /\ titleCalls' = [titleCalls EXCEPT ![c] =
                                   [NoTitleCall EXCEPT !.st = "failed"]]
               /\ cacheOp' = CacheOpOf("titleFailed", c, id, Null)
               /\ UNCHANGED <<storage, timers, timerSeq, now, requests, lastMatch>>
          ELSE /\ titleCalls' = [titleCalls EXCEPT ![c] =
                                   [NoTitleCall EXCEPT !.st = "done"]]
               /\ IF thread # NoThread
                  THEN /\ storage' = written.storage
                       /\ timers' = written.timers
                       /\ timerSeq' = written.timerSeq
                       /\ lastMatch' = [lastMatch EXCEPT ![id] = now]
                       /\ cacheOp' = [CacheOpOf("titleMatched", c, id, title)
                                      EXCEPT !.own = thread.title]
                  ELSE /\ cacheOp' = CacheOpOf("titleUnmatched", c, id, title)
                       /\ UNCHANGED <<storage, timers, timerSeq, lastMatch>>
               /\ UNCHANGED <<now, requests>>

\* The callback of setTimeout in localCache.set: localStorage.removeItem(key).
TimerFires(t) ==
    /\ t \in timers
    /\ t.due <= now
    /\ storage' = [storage EXCEPT ![t.key] = Null]
    /\ timers' = timers \ {t}
    /\ cacheOp' = CacheOpOf("timer", 0, t.key, Null)
    /\ UNCHANGED <<timerSeq, now, titleCalls, requests, lastMatch>>

\* Time passes; a due timer runs before the clock moves on.
Tick ==
    /\ now + TickMs <= MaxTime
    /\ \A t \in timers : t.due > now
    /\ now' = now + TickMs
    /\ cacheOp' = CacheOpOf("tick", 0, "-", Null)
    /\ UNCHANGED <<storage, timers, timerSeq, titleCalls, requests, lastMatch>>

\* The user (or the browser) clears localStorage; timers are not affected.
\* What a completed call guaranteed about the entry ends here.
ClearStorage ==
    /\ \E id \in ThreadIds : storage[id] # Null
    /\ storage' = [id \in ThreadIds |-> Null]
    /\ lastMatch' = [id \in ThreadIds |-> -1]
    /\ cacheOp' = CacheOpOf("clear", 0, "-", Null)
    /\ UNCHANGED <<timers, timerSeq, now, titleCalls, requests>>

\* The page is reloaded: localStorage persists, the timers and the pending
\* calls of the old page are gone.
Reload ==
    /\ timers # {} \/ \E c \in TitleCallIds : titleCalls[c].st = "pending"
    /\ timers' = {}
    /\ timerSeq' = 0
    /\ titleCalls' = [c \in TitleCallIds |->
                        IF titleCalls[c].st = "pending"
                        THEN [NoTitleCall EXCEPT !.st = "dropped"]
                        ELSE titleCalls[c]]
    /\ cacheOp' = CacheOpOf("reload", 0, "-", Null)
    /\ UNCHANGED <<storage, now, requests, lastMatch>>

\* The ttlMs arguments of localCache.set; an omitted one is undefined, which
\* `ttlMs && ttlMs > 0` treats as it treats 0.
Ttls == {-1, 0, EXPIRE_TIME}
CacheValues == {"A", "B"}

\* Mutant: a set cancels the pending timers of its key before scheduling.
localCacheSet_CancelsTimers(id, value, ttlMs) ==
    /\ ttlMs > 0 => timerSeq < MaxSets
    /\ storage' = CacheSet(id, value, ttlMs).storage
    /\ timers' = {t \in CacheSet(id, value, ttlMs).timers :
                     t.key = id => t.n = timerSeq + 1}
    /\ timerSeq' = CacheSet(id, value, ttlMs).timerSeq
    /\ lastMatch' = [lastMatch EXCEPT ![id] = now]
    /\ cacheOp' = [CacheOpOf("set", 0, id, value) EXCEPT !.ttl = ttlMs]
    /\ UNCHANGED <<now, titleCalls, requests>>

\* A caller's localCache.set(key, value, ttlMs).
localCacheSet(id, value, ttlMs) ==
    /\ ttlMs > 0 => timerSeq < MaxSets
    /\ storage' = CacheSet(id, value, ttlMs).storage
    /\ timers' = CacheSet(id, value, ttlMs).timers
    /\ timerSeq' = CacheSet(id, value, ttlMs).timerSeq
    /\ lastMatch' = [lastMatch EXCEPT ![id] = now]
    /\ cacheOp' = [CacheOpOf("set", 0, id, value) EXCEPT !.ttl = ttlMs]
    /\ UNCHANGED <<now, titleCalls, requests>>

LocalCacheSet ==
    \E id \in ThreadIds, value \in CacheValues, ttlMs \in Ttls :
        localCacheSet(id, value, ttlMs)

TitleRequest == \E id \in ThreadIds : getThreadTitle(id)

TitleResponse ==
    \E c \in TitleCallIds, resp \in Responses : getThreadTitleResponse(c, resp)

TimerRuns == \E t \in timers : TimerFires(t)


----------------------------------------------------------------------------
(* The HTTP layer: shared/lib/http.ts and features/threads/api/threads.ts *)

\* A decoded JSON value: its JS type, its ErrorMessageJP property (NoField
\* when it has none) and, for an array, its items.
NoField == "undefined"
JValue(type, msg, items) == [type |-> type, msg |-> msg, items |-> items]
JNull == JValue("null", NoField, <<>>)
SERVER_MESSAGE == "ErrorMessageJP from the server"

Decoded ==
    { JNull,
      JValue("number", NoField, <<>>),
      JValue("string", NoField, <<>>),
      JValue("object", NoField, <<>>),
      JValue("object", "", <<>>),
      JValue("object", SERVER_MESSAGE, <<>>),
      JValue("array", NoField, <<>>),
      JValue("array", NoField, <<Thread("t1", "A")>>) }

\* A response body is text: either the JSON text of a value, or text that
\* JSON.parse rejects (empty, HTML, ...).
Bodies == [json : {TRUE}, value : Decoded] \cup {[json |-> FALSE, value |-> JNull]}

HttpStatuses == {200, 201, 400, 404, 500, 403, 503}
HttpResponses ==
    [kind : {"http"}, status : HttpStatuses, body : Bodies]
        \cup {[kind |-> "network", status |-> 0, body |-> [json |-> FALSE, value |-> JNull]]}

\* Response.ok
Ok(status) == status \in 200..299

\* Error messages; status is 0 where the message embeds none.
Msg(text, status) == [text |-> text, status |-> status]
NoError == Msg("-", 0)
MSG_TRANSPORT(status) == Msg("error communicating with the server (Status: )", status)
MSG_INVALID_SHAPE == Msg("the API returned data of an unexpected shape", 0)
MSG_GENERIC(status) == Msg("error: ", status)
MSG_NETWORK == Msg("TypeError: Failed to fetch", 0)
MSG_SYNTAX == Msg("SyntaxError: JSON.parse", 0)
MSG_NULL_PROPERTY == Msg("TypeError: Cannot read properties of null", 0)
StatusFallback(status) ==
    CASE status = 404 -> Msg("that thread does not exist.", 0)
      [] status = 400 -> Msg("validation error", 0)
      [] status = 500 -> Msg("an error occurred on the server.", 0)

\* How a call ends, and how often it read the response body.
Returned(value, reads) ==
    [kind |-> "returned", value |-> value, error |-> NoError, bodyReads |-> reads]
Threw(err, reads) ==
    [kind |-> "threw", value |-> JNull, error |-> err, bodyReads |-> reads]

\* response.json()
ResponseJson(resp) ==
    IF resp.body.json THEN Returned(resp.body.value, 1) ELSE Threw(MSG_SYNTAX, 1)

\* Mutant: the error body is decoded before the status error is thrown.
fetchWithErrorHandling_ReadsErrorBody(resp) ==
    IF resp.kind = "network" THEN Threw(MSG_NETWORK, 0)
    ELSE IF ~Ok(resp.status)
         THEN IF resp.body.json THEN Threw(MSG_TRANSPORT(resp.status), 1)
                                ELSE Threw(MSG_SYNTAX, 1)
         ELSE ResponseJson(resp)

\* fetchWithErrorHandling, from the answer of its fetch on.
fetchWithErrorHandling(resp) ==
    IF resp.kind = "network" THEN Threw(MSG_NETWORK, 0)
    ELSE IF ~Ok(resp.status) THEN Threw(MSG_TRANSPORT(resp.status), 0)
    ELSE ResponseJson(resp)

\* Mutant: the body is returned without the Array.isArray check.
getThreads_NoShapeCheck(resp) ==
    fetchWithErrorHandling(resp)

\* getThreads, from the answer of its request on.
getThreads(resp) ==
    LET threadsData == fetchWithErrorHandling(resp)
    IN IF threadsData.kind = "threw" THEN threadsData
       ELSE IF threadsData.value.type # "array"
            THEN Threw(MSG_INVALID_SHAPE, threadsData.bodyReads)
            ELSE threadsData

\* errorData.ErrorMessageJP || fallback
LocalizedOr(errorData, fallback) ==
    IF errorData.type = "null" THEN Threw(MSG_NULL_PROPERTY, 1)
    ELSE IF errorData.msg # NoField /\ Truthy(errorData.msg)
         THEN Threw(Msg(errorData.msg, 0), 1)
         ELSE Threw(fallback, 1)

\* getThreadPosts, from the answer of its fetch on.
getThreadPosts(resp) ==
    IF resp.kind = "network" THEN Threw(MSG_NETWORK, 0)
    ELSE IF ~Ok(resp.status)
         THEN LET errorData == ResponseJson(resp)
              IN IF errorData.kind = "threw" THEN errorData
                 ELSE IF resp.status \in {404, 400, 500}
                      THEN LocalizedOr(errorData.value, StatusFallback(resp.status))
                      ELSE Threw(MSG_GENERIC(resp.status), 1)
         ELSE ResponseJson(resp)

ApiFunctions == {"fetchWithErrorHandling", "getThreads", "getThreadPosts"}
Offsets == {0, 10}

\* The request a call sends.
NoBody == [field |-> "-", text |-> <<>>]
GetRequest(path, offset) ==
    [method |-> "GET", path |-> path, offset |-> offset, body |-> NoBody]
\* JSON.stringify({ [field]: text })
PostRequest(path, field, text) ==
    [method |-> "POST", path |-> path, offset |-> 0,
     body |-> [field |-> field, text |-> text]]
RequestOf(fn, offset) ==
    IF fn = "getThreadPosts" THEN GetRequest("threads/t1/posts", offset)
                             ELSE GetRequest("threads", offset)

NoApiCall == [st |-> "none", fn |-> "-", req |-> GetRequest("-", 0), fetches |-> 0]
NoApiOut ==
    [fn |-> "-", resp |-> [kind |-> "-", status |-> 0,
                           body |-> [json |-> FALSE, value |-> JNull]],
     out |-> Returned(JNull, 0), fetches |-> 0]

ApiInit ==
    /\ apiCall = NoApiCall
    /\ apiOut = NoApiOut

\* A call up to its `await fetch(...)`: one request goes out.
ApiCall ==
    /\ apiCall.st # "pending"
    /\ \E fn \in ApiFunctions, offset \in Offsets :
          apiCall' = [st |-> "pending", fn |-> fn, req |-> RequestOf(fn, offset),
                      fetches |-> 1]
    /\ UNCHANGED apiOut

\* The rest of the call, run when the fetch is answered.
ApiAnswer ==
    /\ apiCall.st = "pending"
    /\ \E resp \in HttpResponses :
          apiOut' = [fn |-> apiCall.fn, resp |-> resp, fetches |-> apiCall.fetches,
                     out |-> CASE apiCall.fn = "fetchWithErrorHandling" ->
                                      fetchWithErrorHandling(resp)
                               [] apiCall.fn = "getThreads" -> getThreads(resp)
                               [] apiCall.fn = "getThreadPosts" -> getThreadPosts(resp)]
    /\ apiCall' = NoApiCall

----------------------------------------------------------------------------
(* The screens: ThreadList / useThreads, PostList / useCreatePost,
   CreateThread / useCreateThread. Each screen drives the tracker of its hook. *)

TOTAL_PAGES == 5
ITEMS_PER_PAGE == 10
INITIAL_PAGE == 1
\* Mutant: one page button more than TOTAL_PAGES.
Pages_OneMore == 1..(TOTAL_PAGES + 1)

Pages == 1..TOTAL_PAGES

ROUTES_HOME == "/"
ROUTES_CREATE_THREAD == "/threads/new"
ROUTES_THREAD_POSTS == "/threads/t1/posts"

EMPTY_THREADS == "init"            \* useAsyncState<Thread[]>([]): the empty array
MSG_BAD_DATA == "the data has a wrong shape"
MSG_FETCH_THREADS_FAILED == "failed to fetch the thread data"
MSG_CREATE_THREAD_FAILED == "error while creating the thread"

TitleInputs == PostInputs
POSTS_THREAD_ID == "t1"            \* useParams().threadId of the post list

\* The responses the screens are answered with.
ScreenResponses ==
    { r \in HttpResponses :
        \/ r.kind = "network"
        \/ r.status = 500 /\ r.body.json /\ r.body.value.msg = SERVER_MESSAGE
        \/ r.status = 200 /\ ~r.body.json
        \/ r.status = 200 /\ r.body.json
                          /\ r.body.value.type \in {"array", "object"}
                          /\ r.body.value.msg = NoField }

\* An error message as the string the tracker stores.
MsgString(m) == IF m.status = 0 THEN m.text ELSE m.text \o ToString(m.status)

\* The threads of the page at an offset, as the tracker stores them.
PageData(value, offset) ==
    IF value.items = <<>> THEN EMPTY_THREADS ELSE "threads@" \o ToString(offset)

\* A created thread or post, as the tracker stores it.
CreatedData(value) == IF value.type = "null" THEN Null ELSE "created " \o value.type

NoRequest == GetRequest("-", 0)
Event(kind, c, page, text) == [kind |-> kind, call |-> c, page |-> page, text |-> text]
NoEvent == Event("none", 0, 0, <<>>)

ScreenInitAt(location) ==
    /\ callReq = [c \in CallIds |-> NoRequest]
    /\ uiEvent = NoEvent
    /\ currentPage = INITIAL_PAGE
    /\ titleText = <<>>
    /\ route = location
    /\ isComposerOpen = FALSE
    /\ newPost = <<>>
    /\ postsView = "idle"

ScreenInit == ScreenInitAt(ROUTES_HOME)

Sends(req) == callReq' = [callReq EXCEPT ![NextCall] = req]

\* createPost(threadId, body): the request it sends.
createPost(threadId, post) ==
    PostRequest("threads/" \o threadId \o "/posts", "post", post)

\* createThread(title): the request it sends.
createThread(t) == PostRequest("threads", "title", t)

(* ThreadList *)

\* Mutant: the offset is computed from the page number itself.
fetchThreads_OffsetFromPage(pageNumber) ==
    LET offset == pageNumber * ITEMS_PER_PAGE
    IN /\ ExecuteStart("getThreads", MSG_FETCH_THREADS_FAILED)
       /\ Sends(GetRequest("threads", offset))

\* useThreads.fetchThreads, up to the await of getThreads' request.
fetchThreads(pageNumber) ==
    LET offset == (pageNumber - 1) * ITEMS_PER_PAGE
    IN /\ ExecuteStart("getThreads", MSG_FETCH_THREADS_FAILED)
       /\ Sends(GetRequest("threads", offset))

\* What ThreadList renders.
ThreadListView ==
    IF loading THEN "loading"
    ELSE IF error # Null THEN "error"
    ELSE IF data \in {Null, EMPTY_THREADS} THEN "empty"
    ELSE "list"

\* Pagination: the buttons rendered with active = true.
ActiveButtons ==
    IF ThreadListView = "list"
    THEN {pageNumber \in Pages : currentPage = pageNumber}
    ELSE {}

\* useEffect(() => { initialize() }) after the first render.
ThreadListMount ==
    /\ uiEvent = NoEvent
    /\ fetchThreads(INITIAL_PAGE)
    /\ uiEvent' = Event("mount", NextCall, INITIAL_PAGE, <<>>)
    /\ UNCHANGED <<currentPage, titleText, route, isComposerOpen, newPost, postsView>>

\* ErrorDisplay onRetry={initialize}
ThreadListRetry ==
    /\ ThreadListView = "error"
    /\ fetchThreads(INITIAL_PAGE)
    /\ uiEvent' = Event("retry", NextCall, INITIAL_PAGE, <<>>)
    /\ UNCHANGED <<currentPage, titleText, route, isComposerOpen, newPost, postsView>>

\* Mutant: the page buttons can be clicked while the list is loading.
handlePageChange_WhileLoading ==
    /\ ThreadListView \in {"list", "loading"}
    /\ \E pageNumber \in Pages :
          /\ currentPage' = pageNumber
          /\ fetchThreads(pageNumber)
          /\ uiEvent' = Event("pageChange", NextCall, pageNumber, <<>>)
    /\ UNCHANGED <<titleText, route, isComposerOpen, newPost, postsView>>

\* A click on a Pagination button: handlePageChange(pageNumber).
handlePageChange ==
    /\ ThreadListView = "list"
    /\ \E pageNumber \in Pages :
          /\ currentPage' = pageNumber
          /\ fetchThreads(pageNumber)
          /\ uiEvent' = Event("pageChange", NextCall, pageNumber, <<>>)
    /\ UNCHANGED <<titleText, route, isComposerOpen, newPost, postsView>>

\* The request of a fetchThreads call is answered and execute settles.
ThreadListAnswer ==
    /\ \E c \in InFlight, resp \in ScreenResponses :
          LET out == getThreads(resp)
          IN IF out.kind = "threw"
             THEN SettleReject(c, ErrorOf(MsgString(out.error)))
             ELSE IF out.value.type # "array"
                  THEN SettleReject(c, ErrorOf(MSG_BAD_DATA))
                  ELSE SettleResolve(c, PageData(out.value, callReq[c].offset))
    /\ UNCHANGED screenVars

(* CreateThread *)

\* handleTitleChange
handleTitleChange ==
    /\ route = ROUTES_CREATE_THREAD
    /\ ~loading
    /\ \E t \in TitleInputs :
          /\ titleText' = t
          /\ uiEvent' = Event("titleChange", 0, 0, t)
    /\ UNCHANGED trackerVars
    /\ UNCHANGED <<callReq, currentPage, route, isComposerOpen, newPost, postsView>>

\* handleSubmitClick, up to the await: nothing for a blank title, else
\* createThread(trimmed) starts execute and its POST goes out.
handleSubmitClick ==
    /\ route = ROUTES_CREATE_THREAD
    /\ ~loading
    /\ LET trimmed == Trim(titleText)
       IN IF trimmed = <<>>
          THEN /\ uiEvent' = Event("submitThread", 0, 0, titleText)
               /\ UNCHANGED trackerVars
               /\ UNCHANGED callReq
          ELSE /\ ExecuteStart("createThread", MSG_CREATE_THREAD_FAILED)
               /\ Sends(createThread(trimmed))
               /\ uiEvent' = Event("submitThread", NextCall, 0, titleText)
    /\ UNCHANGED <<currentPage, titleText, route, isComposerOpen, newPost, postsView>>

\* The POST is answered, execute settles, and handleSubmitClick goes on after
\* its await: setTitle(""); navigate(ROUTES.HOME).
CreateThreadAnswer ==
    /\ route = ROUTES_CREATE_THREAD
    /\ \E c \in InFlight, resp \in ScreenResponses :
          LET out == fetchWithErrorHandling(resp)
          IN IF out.kind = "threw"
             THEN SettleReject(c, ErrorOf(MsgString(out.error)))
             ELSE SettleResolve(c, CreatedData(out.value))
    /\ titleText' = <<>>
    /\ route' = ROUTES_HOME
    /\ UNCHANGED <<callReq, uiEvent, currentPage, isComposerOpen, newPost, postsView>>

\* ThreadList.handleCreateNavigate: the creation screen is mounted anew, with
\* a fresh title and a fresh tracker.
handleCreateNavigate ==
    /\ route = ROUTES_HOME
    /\ NextCall \in CallIds
    /\ route' = ROUTES_CREATE_THREAD
    /\ titleText' = <<>>
    /\ data' = initialData
    /\ loading' = FALSE
    /\ error' = Null
    /\ lastOp' = Op("mount", 0, Null, NoThrown, "-", TRUE)
    /\ escaped' = NoThrown
    /\ uiEvent' = Event("createNavigate", 0, 0, <<>>)
    /\ UNCHANGED <<initialData, calls, resets>>
    /\ UNCHANGED <<callReq, currentPage, isComposerOpen, newPost, postsView>>

(* PostList *)

\* useEffect(() => { initialize() }): the posts and the title are requested.
PostListMount ==
    /\ postsView = "idle"
    /\ postsView' = "loading"
    /\ uiEvent' = Event("mount", 0, 0, <<>>)
    /\ UNCHANGED trackerVars
    /\ UNCHANGED <<callReq, currentPage, titleText, route, isComposerOpen, newPost>>

\* fetchPostsAndTitle settles: the list is shown, or the error of either request.
PostsAnswer ==
    /\ postsView = "loading"
    /\ \E resp \in ScreenResponses, titleOk \in BOOLEAN :
          postsView' = IF getThreadPosts(resp).kind = "returned" /\ titleOk
                       THEN "list" ELSE "error"
    /\ UNCHANGED trackerVars
    /\ UNCHANGED <<callReq, uiEvent, currentPage, titleText, route, isComposerOpen, newPost>>

\* ErrorDisplay onRetry={initialize}
PostsRetry ==
    /\ postsView = "error"
    /\ postsView' = "loading"
    /\ uiEvent' = Event("retry", 0, 0, <<>>)
    /\ UNCHANGED trackerVars
    /\ UNCHANGED <<callReq, currentPage, titleText, route, isComposerOpen, newPost>>

openComposer ==
    /\ postsView = "list"
    /\ ~isComposerOpen
    /\ isComposerOpen' = TRUE
    /\ uiEvent' = Event("openComposer", 0, 0, <<>>)
    /\ UNCHANGED trackerVars
    /\ UNCHANGED <<callReq, currentPage, titleText, route, newPost, postsView>>

closeComposer ==
    /\ postsView = "list"
    /\ isComposerOpen
    /\ ~loading
    /\ isComposerOpen' = FALSE
    /\ newPost' = <<>>
    /\ uiEvent' = Event("closeComposer", 0, 0, <<>>)
    /\ UNCHANGED trackerVars
    /\ UNCHANGED <<callReq, currentPage, titleText, route, postsView>>

handleChange ==
    /\ postsView = "list"
    /\ isComposerOpen
    /\ ~loading
    /\ \E t \in PostInputs :
          /\ newPost' = t
          /\ uiEvent' = Event("change", 0, 0, t)
    /\ UNCHANGED trackerVars
    /\ UNCHANGED <<callReq, currentPage, titleText, route, isComposerOpen, postsView>>

\* Mutant: the body is submitted without the blank check.
handleSubmit_SubmitsBlank ==
    /\ postsView = "list"
    /\ isComposerOpen
    /\ ~loading
    /\ LET trimmed == Trim(newPost)
       IN /\ ExecuteStart("createPost", MSG_CREATE_POST_FAILED)
          /\ Sends(createPost(POSTS_THREAD_ID, trimmed))
          /\ uiEvent' = Event("submitPost", NextCall, 0, newPost)
    /\ UNCHANGED <<currentPage, titleText, route, isComposerOpen, newPost, postsView>>

\* PostList.handleSubmit, up to the await: nothing for a blank body, else
\* createPost(trimmed) passes the checks of useCreatePost and starts execute.
handleSubmit ==
    /\ postsView = "list"
    /\ isComposerOpen
    /\ ~loading
    /\ LET trimmed == Trim(newPost)
       IN IF trimmed = <<>>
          THEN /\ uiEvent' = Event("submitPost", 0, 0, newPost)
               /\ UNCHANGED trackerVars
               /\ UNCHANGED callReq
          ELSE /\ ExecuteStart("createPost", MSG_CREATE_POST_FAILED)
               /\ Sends(createPost(POSTS_THREAD_ID, trimmed))
               /\ uiEvent' = Event("submitPost", NextCall, 0, newPost)
    /\ UNCHANGED <<currentPage, titleText, route, isComposerOpen, newPost, postsView>>

\* The POST is answered, execute settles, and handleSubmit goes on after its
\* await: setNewPost(''); setIsComposerOpen(false); initialize().
CreatePostAnswer ==
    /\ \E c \in InFlight, resp \in ScreenResponses :
          LET out == fetchWithErrorHandling(resp)
          IN IF out.kind = "threw"
             THEN SettleReject(c, ErrorOf(MsgString(out.error)))
             ELSE SettleResolve(c, CreatedData(out.value))
    /\ newPost' = <<>>
    /\ isComposerOpen' = FALSE
    /\ postsView' = "loading"
    /\ UNCHANGED <<callReq, uiEvent, currentPage, titleText, route>>

----------------------------------------------------------------------------
(* Specifications *)

\* What each specification leaves alone.
besideTracker == <<cacheVars, apiVars, screenVars>>
besideCache == <<trackerVars, apiVars, screenVars>>
besideApi == <<trackerVars, cacheVars, screenVars>>
besideScreens == <<cacheVars, apiVars>>

Init == TrackerInit /\ CacheInit /\ ApiInit /\ ScreenInit

\* The tracker alone is explored up to MaxCalls calls.
CallBudget == NextCall <= MaxCalls

Next ==
    \/ CallBudget /\ Execute /\ UNCHANGED besideTracker
    \/ CallBudget /\ handleCreatePost /\ UNCHANGED besideTracker
    \/ CallBudget /\ initialize /\ UNCHANGED besideTracker
    \/ Resolve /\ UNCHANGED besideTracker
    \/ Reject /\ UNCHANGED besideTracker
    \/ reset /\ UNCHANGED besideTracker

Spec == Init /\ [][Next]_vars

\* Every promise an operation returned is settled in the end: each request
\* is answered or fails.
Settle == (Resolve \/ Reject) /\ UNCHANGED besideTracker
SpecFair == Spec /\ WF_vars(Settle)

\* The cache and getThreadTitle alone, beside a tracker that is not used.
InitCache == Init /\ initialData = Null

NextCache ==
    \/ TitleRequest /\ UNCHANGED besideCache
    \/ TitleResponse /\ UNCHANGED besideCache
    \/ TimerRuns /\ UNCHANGED besideCache
    \/ Tick /\ UNCHANGED besideCache
    \/ ClearStorage /\ UNCHANGED besideCache
    \/ Reload /\ UNCHANGED besideCache

SpecCache == InitCache /\ [][NextCache]_vars

\* localCache alone: its callers set keys with and without a TTL.
NextLocalCache ==
    \/ LocalCacheSet /\ UNCHANGED besideCache
    \/ TimerRuns /\ UNCHANGED besideCache
    \/ Tick /\ UNCHANGED besideCache
    \/ ClearStorage /\ UNCHANGED besideCache

SpecLocalCache == InitCache /\ [][NextLocalCache]_vars

\* The API functions alone, one call at a time.
NextApi ==
    \/ ApiCall /\ UNCHANGED besideApi
    \/ ApiAnswer /\ UNCHANGED besideApi

SpecApi == InitCache /\ [][NextApi]_vars

\* The thread list screen.
InitThreadList == Init /\ initialData = EMPTY_THREADS

NextThreadList ==
    \/ ThreadListMount /\ UNCHANGED besideScreens
    \/ ThreadListRetry /\ UNCHANGED besideScreens
    \/ handlePageChange /\ UNCHANGED besideScreens
    \/ ThreadListAnswer /\ UNCHANGED besideScreens

SpecThreadList == InitThreadList /\ [][NextThreadList]_vars

\* The post list screen of a thread.
NextPostList ==
    \/ PostListMount /\ UNCHANGED besideScreens
    \/ PostsAnswer /\ UNCHANGED besideScreens
    \/ PostsRetry /\ UNCHANGED besideScreens
    \/ openComposer /\ UNCHANGED besideScreens
    \/ closeComposer /\ UNCHANGED besideScreens
    \/ handleChange /\ UNCHANGED besideScreens
    \/ handleSubmit /\ UNCHANGED besideScreens
    \/ CreatePostAnswer /\ UNCHANGED besideScreens

SpecPostList == InitCache /\ [][NextPostList]_vars

\* The thread creation screen, entered from the thread list.
InitCreateThread ==
    /\ TrackerInit /\ initialData = Null
    /\ CacheInit /\ ApiInit
    /\ ScreenInitAt(ROUTES_CREATE_THREAD)

NextCreateThread ==
    \/ handleTitleChange /\ UNCHANGED besideScreens
    \/ handleSubmitClick /\ UNCHANGED besideScreens
    \/ CreateThreadAnswer /\ UNCHANGED besideScreens
    \/ handleCreateNavigate /\ UNCHANGED besideScreens

SpecCreateThread == InitCreateThread /\ [][NextCreateThread]_vars

\* Any one of the three screens, each with the tracker of its own hook: the
\* thread list's tracker is the one constructed with [].
InitScreens ==
    \/ InitThreadList
    \/ /\ TrackerInit /\ initialData = Null
       /\ CacheInit /\ ApiInit
       /\ ScreenInitAt(ROUTES_THREAD_POSTS)
    \/ InitCreateThread

NextScreens ==
    \/ initialData = EMPTY_THREADS /\ NextThreadList
    \/ initialData = Null /\ route = ROUTES_THREAD_POSTS /\ NextPostList
    \/ initialData = Null /\ route # ROUTES_THREAD_POSTS /\ NextCreateThread

SpecScreens == InitScreens /\ [][NextScreens]_vars

----------------------------------------------------------------------------
(* Claims about the tracker *)

Settled == InFlight = {}
JustResolved == lastOp.kind = "resolve"
JustRejected == lastOp.kind = "reject"

\* C1: when execute(op) completes with op resolving to v, and no other execute
\* call was in flight during it, the tracker holds loading = false,
\* error = null and data = v, whatever it held before.
C1_ResolveSettles ==
    (JustResolved /\ lastOp.alone) =>
        (loading = FALSE /\ error = Null /\ data = lastOp.val)

C1_Witness ==
    /\ JustResolved /\ lastOp.alone
    /\ lastOp.prevData \notin {Null, lastOp.val}
    /\ data = lastOp.val

\* C2: when execute(op) completes with op rejecting with an Error of message
\* m, and no other execute call was in flight during it, the tracker holds
\* loading = false, data = null and error = m.
C2_RejectSettles ==
    (JustRejected /\ lastOp.alone /\ lastOp.thrown.kind = "Error") =>
        (loading = FALSE /\ data = Null /\ error = lastOp.thrown.message)

C2_Witness ==
    /\ JustRejected /\ lastOp.alone /\ lastOp.thrown.kind = "Error"
    /\ initialData # Null
    /\ lastOp.prevData # Null
    /\ data = Null

\* C3 (as claimed): the stored error is the caught value's own message when
\* the value carries one (an Error, or an object with a message field), and
\* the caller's fallback otherwise.
C3_Original ==
    JustRejected =>
        error = (IF isApiError(lastOp.thrown) THEN lastOp.thrown.message
                                               ELSE lastOp.fallback)

\* C4 (as claimed): every failure of an operation or of a precondition check
\* ends up as the tracker's error string and none reaches the caller as a
\* rejected promise.
C4_Original ==
    lastOp.kind \in {"reject", "precondition"} =>
        /\ escaped = NoThrown
        /\ error = formatErrorMessage(lastOp.thrown, lastOp.fallback)

\* C5: reset() called in a settled state (after a success or a failure) leaves
\* the tracker at (initialData, false, null) in that one step.
C5_ResetRestores ==
    (lastOp.kind = "reset" /\ lastOp.prevLoading = FALSE) =>
        (data = initialData /\ loading = FALSE /\ error = Null)

C5_Witness ==
    /\ lastOp.kind = "reset" /\ lastOp.prevLoading = FALSE
    /\ lastOp.prevError # Null
    /\ initialData # Null
    /\ data = initialData /\ error = Null

\* C6 (as claimed): loading is true exactly when an execute call is in flight.
C6_Original == loading <=> (InFlight # {})

\* C6 (amended): loading = true implies that an execute call is in flight;
\* with no call in flight, loading is false.
C6_LoadingImpliesInFlight == loading => (InFlight # {})

C6_Witness ==
    /\ loading
    /\ Cardinality(InFlight) = 2

\* C7 (as claimed, its last sentence): in every settled state a non-null error
\* comes with null data.
C7_Original ==
    (Settled /\ ~loading) => (error # Null => data = Null)

C7_Step ==
    /\ lastOp'.kind = "start" =>
          (loading' = TRUE /\ error' = Null /\ data' = data)
    /\ data' # data => lastOp'.kind \in {"resolve", "reject", "reset"}
    /\ lastOp'.kind = "resolve" => data' = lastOp'.val
    /\ lastOp'.kind = "reject" => (data' = Null /\ error' # Null)
    /\ (InFlight' = {} /\ lastOp'.alone) => (error' # Null => data' = Null)

\* C7 (amended): starting execute sets loading = true and error = null and
\* leaves data unchanged; data changes only when an operation settles (the
\* result on success; null on failure, together with a non-null error) or on
\* reset; in a settled state whose last settled call overlapped no other
\* call, a non-null error comes with null data.
C7_FrameOfExecute == [][C7_Step]_vars

C7_Witness ==
    /\ lastOp.kind = "start"
    /\ lastOp.prevError # Null
    /\ lastOp.prevLoading = FALSE
    /\ error = Null /\ loading = TRUE

OverlapSettled ==
    /\ Settled
    /\ lastOp.kind \in {"resolve", "reject"}
    /\ ~lastOp.alone

\* C8 (as claimed): once two overlapping calls have settled, data and error
\* are both those of the call that settled last.
C8_Original ==
    (OverlapSettled /\ JustResolved) => (data = lastOp.val /\ error = Null)

\* C8 (amended): once overlapping calls have settled, loading is false and
\* data is what the call that settled last wrote (its result, or null when it
\* failed), whichever call was issued first; error is that call's message
\* when it failed, and when it succeeded error is what the earlier settle
\* left (the other call's message if that one failed).
C8_LastSettleWins ==
    OverlapSettled =>
        /\ loading = FALSE
        /\ JustResolved => (data = lastOp.val /\ error = lastOp.prevError)
        /\ JustRejected =>
              /\ data = Null
              /\ error = formatErrorMessage(lastOp.thrown, lastOp.fallback)

C8_Witness ==
    /\ OverlapSettled /\ JustResolved
    /\ lastOp.id = 1
    /\ calls[2].st = "done"
    /\ data = lastOp.val
    /\ error # Null

----------------------------------------------------------------------------
(* Claims about getThreadTitle and the cache *)

C9_Step ==
    (TitleCallsIssued' = TitleCallsIssued + 1 /\ storage[cacheOp'.id] # Null) =>
        /\ cacheOp'.kind = "titleHit"
        /\ titleCalls'[cacheOp'.call].st = "done"
        /\ cacheOp'.result = storage[cacheOp'.id]
        /\ requests' = requests
        /\ storage' = storage
        /\ timers' = timers

\* C9: a getThreadTitle(threadId) call made while a value is stored under
\* 'thread_title_' + threadId returns that value, issues no network request
\* and leaves the storage and the pending timers as they were.
C9_HitServedFromCache == [][C9_Step]_vars

C9_Witness ==
    /\ cacheOp.kind = "titleHit"
    /\ cacheOp.result = storage[cacheOp.id]
    /\ \E t \in timers : t.key = cacheOp.id
    /\ requests = 1

\* C10 (as claimed): once a getThreadTitle(id) call has completed with a match
\* in the thread-list response, no later call for that id made less than
\* EXPIRE_TIME after that completion (with no clearing of the storage in
\* between) issues a thread-list request.
C10_Original ==
    cacheOp.kind = "titleMiss" =>
        ~(cacheOp.matchedAt >= 0 /\ cacheOp.at < cacheOp.matchedAt + EXPIRE_TIME)

\* The getThreadTitle call c got its response in this step.
TitleAnswered(c) == titleCalls[c].st = "pending" /\ titleCalls'[c].st = "done"

C11_Step ==
    /\ (TitleCallsIssued' = TitleCallsIssued + 1 /\ cacheOp'.id = ABSENT_ID) =>
          (cacheOp'.kind = "titleMiss" /\ requests' = requests + 1)
    /\ \A c \in TitleCallIds :
          (TitleAnswered(c) /\ titleCalls[c].id = ABSENT_ID) =>
              /\ cacheOp'.result = PLACEHOLDER_TITLE
              /\ storage' = storage
              /\ timers' = timers
    /\ storage'[ABSENT_ID] = Null

\* C11: for an id that no thread-list response for offset 0 contains, every
\* getThreadTitle(id) call issues one thread-list request, its answer is the
\* placeholder title and nothing is written to the cache, however often it is
\* called.
C11_AbsentIdNeverCached == [][C11_Step]_vars

C11_Witness ==
    /\ cacheOp.kind = "titleUnmatched"
    /\ cacheOp.id = ABSENT_ID
    /\ cacheOp.call = 2
    /\ cacheOp.result = PLACEHOLDER_TITLE
    /\ requests = 2
    /\ storage[ABSENT_ID] = Null

\* C12 (as claimed): a value stored by a call that matched a thread is that
\* thread's own title, and the placeholder is never stored.
C12_Original ==
    cacheOp.kind = "titleMatched" =>
        /\ storage[cacheOp.id] = cacheOp.own
        /\ cacheOp.result # PLACEHOLDER_TITLE

\* C13 (as claimed): an entry in the storage is never older than EXPIRE_TIME.
C13_Original ==
    \A id \in ThreadIds :
        storage[id] # Null =>
            (lastMatch[id] >= 0 /\ now <= lastMatch[id] + EXPIRE_TIME)

----------------------------------------------------------------------------
(* Claims about the HTTP layer *)

Ended(fn) == apiOut.fn = fn
Success == apiOut.resp.kind = "http" /\ Ok(apiOut.resp.status)
Failure == apiOut.resp.kind = "http" /\ ~Ok(apiOut.resp.status)
DecodedBody == apiOut.resp.body.json

\* C14: getThreads, on a success status whose decoded body is not an array
\* (null, object, string, number), fails with the invalid-response-shape
\* error and returns no value; an array body is returned unchanged.
C14_GetThreadsShape ==
    (Ended("getThreads") /\ Success /\ DecodedBody) =>
        IF apiOut.resp.body.value.type = "array"
        THEN apiOut.out.kind = "returned" /\ apiOut.out.value = apiOut.resp.body.value
        ELSE apiOut.out.kind = "threw" /\ apiOut.out.error = MSG_INVALID_SHAPE

C14_Witness ==
    /\ Ended("getThreads") /\ Success /\ DecodedBody
    /\ apiOut.resp.body.value.type = "object"
    /\ apiOut.out.error = MSG_INVALID_SHAPE

\* The server's localized message of the error body, where it has one.
HasServerMessage ==
    /\ DecodedBody
    /\ apiOut.resp.body.value.msg \notin {NoField, ""}

\* C15 (as claimed): getThreadPosts, on status 404, 400 or 500, throws the
\* server's localized message when it is present and non-empty, and the fixed
\* fallback of the status otherwise.
C15_Original ==
    (Ended("getThreadPosts") /\ Failure /\ apiOut.resp.status \in {404, 400, 500}) =>
        /\ apiOut.out.kind = "threw"
        /\ apiOut.out.error = IF HasServerMessage
                              THEN Msg(apiOut.resp.body.value.msg, 0)
                              ELSE StatusFallback(apiOut.resp.status)

\* C16 (as claimed): getThreadPosts, on any other non-success status, throws
\* the generic message embedding the status, whatever the body is.
C16_Original ==
    (Ended("getThreadPosts") /\ Failure /\ apiOut.resp.status \notin {404, 400, 500}) =>
        /\ apiOut.out.kind = "threw"
        /\ apiOut.out.error = MSG_GENERIC(apiOut.resp.status)

\* C17: fetchWithErrorHandling, on a non-success status, fails with a message
\* embedding the status and never reads the body; on a success status it
\* returns the decoded body whatever its shape; it issues exactly one request
\* per call.
C17_FetchWithErrorHandling ==
    Ended("fetchWithErrorHandling") =>
        /\ apiOut.fetches = 1
        /\ Failure => /\ apiOut.out.kind = "threw"
                      /\ apiOut.out.error = MSG_TRANSPORT(apiOut.resp.status)
                      /\ apiOut.out.bodyReads = 0
        /\ (Success /\ DecodedBody) =>
                      /\ apiOut.out.kind = "returned"
                      /\ apiOut.out.value = apiOut.resp.body.value

C17_Witness ==
    /\ Ended("fetchWithErrorHandling") /\ Failure
    /\ apiOut.resp.status = 503
    /\ apiOut.resp.body.json
    /\ apiOut.out.error.status = 503
    /\ apiOut.out.bodyReads = 0

----------------------------------------------------------------------------
(* Claims about the screens *)

\* C18: the initial load of the thread list requests getThreads(0); a page
\* change to page p sets currentPage = p and requests
\* getThreads((p - 1) * 10); the pagination control marks exactly the button
\* of currentPage as active.
C18_PageRequests ==
    /\ uiEvent.kind = "mount" => callReq[uiEvent.call] = GetRequest("threads", 0)
    /\ uiEvent.kind = "pageChange" =>
          /\ currentPage = uiEvent.page
          /\ callReq[uiEvent.call] = GetRequest("threads", (uiEvent.page - 1) * 10)
    /\ ThreadListView = "list" => ActiveButtons = {currentPage}

C18_Witness ==
    /\ uiEvent.kind = "pageChange"
    /\ uiEvent.page = 3
    /\ callReq[uiEvent.call].offset = 20
    /\ callReq[1].offset = 0
    /\ ActiveButtons = {3}

C19_Step ==
    (uiEvent' # uiEvent /\ uiEvent'.kind = "submitPost" /\ Trim(uiEvent'.text) = <<>>) =>
        /\ calls' = calls
        /\ callReq' = callReq
        /\ loading = FALSE /\ loading' = FALSE

\* C19: in the post list, submitting a body that is empty or only whitespace
\* starts no create-post call, leaves the create-post tracker's loading false
\* and sends no request, whatever composer events came before.
C19_BlankPostNotSubmitted == [][C19_Step]_vars

C19_Witness ==
    /\ uiEvent.kind = "submitPost"
    /\ uiEvent.text = <<" ">>
    /\ uiEvent.call = 0
    /\ isComposerOpen
    /\ lastOp.kind = "resolve"

\* C20 (as claimed): the creation screen is left for the home route only after
\* the POST of the submitted title has succeeded.
C20_Original ==
    (route = ROUTES_HOME /\ uiEvent.kind = "submitThread") =>
        /\ callReq[uiEvent.call] = PostRequest("threads", "title", Trim(uiEvent.text))
        /\ lastOp.kind = "resolve"

\* C21 (as claimed): the retry control of the thread list re-invokes the
\* operation of the call that failed, with the same page offset.
C21_Original ==
    (uiEvent.kind = "retry" /\ uiEvent.call > 1) =>
        callReq[uiEvent.call] = callReq[uiEvent.call - 1]

----------------------------------------------------------------------------
(* Claims about localCache *)

\* The step is a localCache.set call.
IsSet == cacheOp'.kind = "set"

\* The timers a step scheduled.
Scheduled == timers' \ timers

C22_SetStep ==
    IsSet =>
        /\ storage' = [storage EXCEPT ![cacheOp'.id] = cacheOp'.result]
        /\ timers \subseteq timers'
        /\ IF cacheOp'.ttl > 0
           THEN /\ Cardinality(Scheduled) = 1
                /\ \A t \in Scheduled :
                      t.key = cacheOp'.id /\ t.due = now + cacheOp'.ttl
           ELSE Scheduled = {}

\* Right after a set without a TTL, only an external clear removes the entry.
C22_StaysStep ==
    (cacheOp.kind = "set" /\ cacheOp.ttl <= 0) =>
        (storage'[cacheOp.id] # Null \/ cacheOp'.kind = "clear")

\* C22 (as claimed): localCache.set writes the value at once and schedules
\* exactly one removal of the key after ttl when ttl > 0; with no ttl, 0 or a
\* negative one it schedules none and the entry stays until the storage is
\* cleared externally.
C22_Original == [][C22_SetStep /\ C22_StaysStep]_vars

\* The timers that ran in a step.
Fired == timers \ timers'

C23_Step ==
    /\ IsSet =>
          /\ storage'[cacheOp'.id] = cacheOp'.result
          /\ timers \subseteq timers'
    /\ cacheOp'.kind = "timer" =>
          /\ Cardinality(Fired) = 1
          /\ \A t \in Fired :
                /\ t.key = cacheOp'.id
                /\ t.due <= now
                /\ storage'[t.key] = Null

\* C23: a set on a key with a pending removal timer replaces the value and
\* leaves that timer as it is; the timer runs at its own deadline and removes
\* the key whatever value it then holds, so a value can be removed before its
\* own TTL has elapsed.
C23_StaleTimerRemoves == [][C23_Step]_vars

C23_Witness ==
    /\ cacheOp.kind = "timer"
    /\ storage[cacheOp.id] = Null
    /\ cacheOp.matchedAt > 0
    /\ cacheOp.at < cacheOp.matchedAt + EXPIRE_TIME
    /\ \E t \in timers :
          t.key = cacheOp.id /\ t.due = cacheOp.matchedAt + EXPIRE_TIME

----------------------------------------------------------------------------
(* Further claims about the tracker *)

\* The call c settled in this step.
SettledNow(c) == calls[c].st = "pending" /\ calls'[c].st = "done"

C24_Step ==
    /\ \A c \in CallIds :
          SettledNow(c) =>
              /\ loading' = FALSE
              /\ \/ lastOp'.kind = "resolve" /\ data' = lastOp'.val /\ error' = error
                 \/ lastOp'.kind = "reject" /\ data' = Null /\ error' # Null
    /\ (data' # data /\ data' \notin {Null, initialData}) => loading' = FALSE
    /\ (error' # error /\ error' # Null) => (data' = Null /\ loading' = FALSE)
    /\ loading' => error' = Null

\* C24: the settle step of an execute call is atomic for readers of the
\* tracker: new data is never seen with loading still true, an error is never
\* seen beside the previous data or beside loading = true; only the state
\* before the settle and the settled state are seen.
C24_SettleIsAtomic == [][C24_Step]_vars

C24_Witness ==
    /\ lastOp.kind = "reject"
    /\ lastOp.prevLoading
    /\ lastOp.prevData \notin {Null}
    /\ data = Null /\ error # Null /\ loading = FALSE

\* C25 (as claimed): a call that stays pending leaves loading true.
C25_OriginalStep ==
    \A c \in CallIds :
        (calls[c].st = "pending" /\ calls'[c].st = "pending" /\ loading) => loading'

C25_Original == [][C25_OriginalStep]_vars

C25_OnceStep ==
    \A c \in CallIds :
        /\ calls[c].st = "done" => calls'[c].st = "done"
        /\ SettledNow(c) => lastOp'.kind \in {"resolve", "reject"} /\ lastOp'.id = c
        /\ (calls[c].st = "pending" /\ ~SettledNow(c)) => calls'[c].st = "pending"

\* C25: when every request is answered or fails in the end, every execute
\* call settles in the end, exactly once, as a success or as a failure; with
\* no call in flight loading is false; a call whose request never completes
\* stays pending (no timeout), and loading then stays true unless reset or
\* the settle of an overlapping call writes false.
C25_EveryCallSettlesOnce ==
    /\ (InFlight # {}) ~> (InFlight = {})
    /\ [][C25_OnceStep]_vars
    /\ [](InFlight = {} => loading = FALSE)

C25_Witness ==
    /\ \A c \in 1..MaxCalls : calls[c].st = "done"
    /\ lastOp.kind = "reject"
    /\ lastOp.prevLoading
    /\ loading = FALSE

C26_Step ==
    /\ resets' # resets => calls' = calls
    /\ \A c \in CallIds :
          SettledNow(c) =>
              /\ loading' = FALSE
              /\ lastOp'.kind = "resolve" => data' = lastOp'.val
              /\ lastOp'.kind = "reject" =>
                    /\ data' = Null
                    /\ error' = formatErrorMessage(lastOp'.thrown, lastOp'.fallback)
              /\ <<data', loading', error'>> # <<initialData, FALSE, Null>>

C27_Step ==
    NextCall' # NextCall =>
        /\ loading = FALSE
        /\ InFlight = {}
        /\ Cardinality(InFlight') = 1

\* C27: through the controls the screens render (page buttons, retry,
\* submit buttons, the load on mount) a call is started on a tracker only
\* while its loading is false: at most one call per tracker is in flight.
C27_OneCallInFlight == [][C27_Step]_vars

C27_Witness ==
    /\ uiEvent.kind = "pageChange"
    /\ uiEvent.call = 3
    /\ InFlight = {3}
    /\ loading

\* The getThreads requests sent so far.
ThreadRequests == {callReq[c] : c \in {c \in CallIds : callReq[c] # NoRequest}}

\* C28: every getThreads request of the thread list, after any sequence of
\* initial load, page clicks and retries, has an offset in {0, 10, 20, 30, 40},
\* and currentPage is in 1..5.
C28_OffsetsInRange ==
    /\ currentPage \in 1..5
    /\ \A req \in ThreadRequests :
          /\ req.method = "GET" /\ req.path = "threads"
          /\ req.offset \in {0, 10, 20, 30, 40}

C28_Witness ==
    /\ uiEvent.kind = "retry"
    /\ currentPage = 5
    /\ \E req \in ThreadRequests : req.offset = 40
    /\ callReq[uiEvent.call].offset = 0

\* C29 (as claimed): the threads the list shows are the response to
\* getThreads((currentPage - 1) * 10).
C29_Original ==
    ThreadListView = "list" =>
        data = "threads@" \o ToString((currentPage - 1) * 10)

\* C30 (as claimed): when the create-thread request fails the screen stays on
\* the creation route, keeps the entered title and holds the failure in the
\* tracker's error.
C30_Original ==
    (uiEvent.kind = "submitThread" /\ lastOp.kind = "reject") =>
        /\ route = ROUTES_CREATE_THREAD
        /\ titleText = uiEvent.text
        /\ error # Null

====
